---------------------------- MODULE Spec2Model ----------------------------
(***************************************************************************)
(* A model of the scop renderer (Pradene/scop): the frame scheduler        *)
(* VkContext::draw_frame, swapchain recreation (VkContext::resize and      *)
(* VkSwapchain::recreate), start-up (VkContext::new) and adapter selection *)
(* (VkPhysicalDevice::choose_physical_device).                             *)
(*                                                                         *)
(* The CPU is one thread: `pc` is its position inside the handler that is  *)
(* running ("idle" between two calls).  The GPU runs asynchronously: the   *)
(* graphics queue holds the submitted batches that have not completed, and *)
(* GpuComplete / PresentExecute are the only steps that are not the CPU's. *)
(* Every Vulkan call whose result the code looks at, or discards, has its  *)
(* failure as an input of the action that models the helper.                 *)
(***************************************************************************)
EXTENDS Integers, Sequences, FiniteSets, TLC

(***************************************************************************)
(* Program constants.                                                      *)
(***************************************************************************)
MAX_FRAMES_IN_FLIGHT == 2

DISCRETE_BONUS == 1000

(***************************************************************************)
(* Bounds of the model.                                                    *)
(***************************************************************************)
MaxRecreations == 2

MaxExtent == 2

MaxMinImages == 2

MaxExtraImages == 1

MaxAdvances == 5

Slots == 0 .. (MAX_FRAMES_IN_FLIGHT - 1)

VARIABLES
    pc,             \* position of the CPU thread
    caller,         \* who called resize: "app" or "draw_frame"
    frame,          \* VkContext.frame
    fences,         \* sync.in_flight_fences: slot -> signalled?
    imageAvailable, \* sync.image_available_semaphores: slot -> signalled?
    renderFinished, \* sync.render_finished_semaphores: slot -> signalled?
    queue,          \* graphics queue: batches submitted and not completed
    presents,       \* present queue: slots whose present request still waits
    image_index,    \* image index returned by the last acquire
    swapchain,      \* VkContext.swapchain
    live,           \* GPU objects allocated and not destroyed, by kind
    surface,        \* what the surface reports (query_swapchain_support)
    stale,          \* the surface changed since the chain was created
    log,            \* the Vulkan calls of the handler call that is running
    recreations,    \* number of recreations started
    lastResult,     \* how the last handler call ended
    advances,       \* number of executions of the frame-advance step
    repeats,        \* recreations completed since the surface last changed
    recording,      \* what the running draw_frame wrote and bound, by slot
    devices,        \* adapters enumerated (adapter selection)
    chosen,         \* result of choose_physical_device
    ini,            \* start-up: progress of VkContext::new
    helper,         \* a helper function applied to an input: its result
    teardown,       \* shutdown: progress of the drop of VkContext
    upload          \* VkBuffer::new in progress: its buffers and its copy

renderVars == <<pc, caller, frame, fences, imageAvailable, renderFinished,
                queue, presents, image_index, swapchain, live, surface,
                stale, log, recreations, lastResult, advances, repeats,
                recording>>

selectVars == <<devices, chosen>>

initVars == <<ini>>

fnVars == <<helper>>

dropVars == <<teardown>>

uploadVars == <<upload>>

vars == <<renderVars, selectVars, initVars, fnVars, dropVars, uploadVars>>


(***************************************************************************)
(* Small helpers.                                                          *)
(***************************************************************************)
Min(a, b) == IF a <= b THEN a ELSE b

Max(a, b) == IF a >= b THEN a ELSE b

\* u32::clamp(lo, hi)
Clamp(x, lo, hi) == IF x < lo THEN lo ELSE IF x > hi THEN hi ELSE x

\* The width that stands for "the extent is not defined" (u32::MAX in the
\* code; here the largest integer TLC holds: only equality with it is ever
\* tested, and no window is that wide).
U32_MAX == 2147483647

\* The surface formats enumerated.
SurfaceFormats ==
    [ format      : {"B8G8R8A8_SRGB", "R8G8B8A8_UNORM"},
      color_space : {"SRGB_NONLINEAR", "EXTENDED_SRGB_LINEAR"} ]

\* A choose_surface_format that compares the format only.
FirstPreferredFrom_FormatOnly(available_formats, i) ==
    IF \E j \in 1 .. Len(available_formats) :
          available_formats[j].format = "B8G8R8A8_SRGB"
    THEN CHOOSE j \in 1 .. Len(available_formats) :
            /\ available_formats[j].format = "B8G8R8A8_SRGB"
            /\ \A k \in 1 .. (j - 1) :
                  available_formats[k].format # "B8G8R8A8_SRGB"
    ELSE 0

\* The loop of choose_surface_format from position i on: the position of
\* the entry it returns, 0 when it ends without returning.
RECURSIVE FirstPreferredFrom(_, _)
FirstPreferredFrom(available_formats, i) ==
    IF i > Len(available_formats) THEN 0
    ELSE IF /\ available_formats[i].format = "B8G8R8A8_SRGB"
            /\ available_formats[i].color_space = "SRGB_NONLINEAR"
         THEN i
    ELSE FirstPreferredFrom(available_formats, i + 1)

\* VkContext::choose_surface_format / VkSwapchain::choose_surface_format
\* (the list is not empty)
choose_surface_format(available_formats) ==
    IF FirstPreferredFrom(available_formats, 1) # 0
    THEN available_formats[FirstPreferredFrom(available_formats, 1)]
    ELSE available_formats[1]

\* The format lists of the window's surface: the preferred combination
\* behind another entry, or absent.
WindowFormatLists ==
    { << [format |-> "R8G8B8A8_UNORM", color_space |-> "SRGB_NONLINEAR"],
         [format |-> "B8G8R8A8_SRGB", color_space |-> "SRGB_NONLINEAR"] >>,
      << [format |-> "R8G8B8A8_UNORM", color_space |-> "SRGB_NONLINEAR"] >> }

(***************************************************************************)
(* The surface, as query_swapchain_support reports it.  An extent is one   *)
(* number here: width and height go through the same code.                 *)
(***************************************************************************)
Surfaces ==
    [ current_extent   : (1 .. MaxExtent) \cup {U32_MAX},
      window           : 1 .. MaxExtent,
      min_image_extent : {1},
      max_image_extent : {MaxExtent},
      min_image_count  : 1 .. MaxMinImages,
      max_image_count  : {0, MaxMinImages, MaxMinImages + 1},
      formats          : WindowFormatLists ]

\* A surface whose extent is defined reports the window's size, and its
\* image-count bounds are consistent.
SurfaceOk(s) ==
    /\ s.current_extent # U32_MAX => s.current_extent = s.window
    /\ s.max_image_count # 0 => s.max_image_count >= s.min_image_count

\* VkSwapchain::choose_extent / VkContext::choose_extent
choose_extent(s) ==
    IF s.current_extent # U32_MAX
    THEN s.current_extent
    ELSE Clamp(s.window, s.min_image_extent, s.max_image_extent)

\* An image count without the final `.max(min_image_count + 1)`.
image_count_NoFloor(s) == Min(s.max_image_count, s.min_image_count + 1)

\* VkSwapchain::new, image_count
image_count(s) ==
    Max(Min(s.max_image_count, s.min_image_count + 1), s.min_image_count + 1)

(***************************************************************************)
(* The swapchain state.  Vectors of handles are kept by their length; the  *)
(* depth handles are null (FALSE) or not.                                  *)
(***************************************************************************)
NoChain ==
    [ min_image_count |-> 0, image_format |-> "UNDEFINED",
      images |-> 0, image_views |-> 0, framebuffers |-> 0, extent |-> 0,
      depth_image |-> FALSE, depth_image_view |-> FALSE,
      depth_image_memory |-> FALSE ]

\* A VkSwapchain::new that takes the image count from the images the driver
\* returned.
VkSwapchain_new_CountFromImages(s, extra) ==
    [ min_image_count    |-> image_count(s) + extra,
      image_format       |-> choose_surface_format(s.formats).format,
      images             |-> image_count(s) + extra,
      image_views        |-> image_count(s) + extra,
      framebuffers       |-> 0,
      extent             |-> choose_extent(s),
      depth_image        |-> FALSE,
      depth_image_view   |-> FALSE,
      depth_image_memory |-> FALSE ]

\* VkSwapchain::new: the create info's min_image_count, image_format and
\* image_extent, then create_swapchain, get_swapchain_images (the driver may
\* create more images than asked for: `extra`), create_image_views.
VkSwapchain_new(s, extra) ==
    [ min_image_count    |-> image_count(s),
      image_format       |-> choose_surface_format(s.formats).format,
      images             |-> image_count(s) + extra,
      image_views        |-> image_count(s) + extra,
      framebuffers       |-> 0,
      extent             |-> choose_extent(s),
      depth_image        |-> FALSE,
      depth_image_view   |-> FALSE,
      depth_image_memory |-> FALSE ]

\* VkSwapchain::create_depth_ressources
create_depth_ressources(c) ==
    [c EXCEPT !.depth_image = TRUE, !.depth_image_memory = TRUE,
              !.depth_image_view = TRUE]

\* A create_framebuffers that builds a framebuffer for the first view only.
create_framebuffers_FirstOnly(c) ==
    [c EXCEPT !.framebuffers = c.framebuffers + 1]

\* VkSwapchain::create_framebuffers: one push per image view
create_framebuffers(c) ==
    [c EXCEPT !.framebuffers = c.framebuffers + c.image_views]

NoLive ==
    [ swapchains |-> 0, image_views |-> 0, framebuffers |-> 0,
      depth_images |-> 0, depth_views |-> 0, depth_memory |-> 0 ]

\* What VkSwapchain::cleanup destroys of chain c.
cleanup(l, c) ==
    [l EXCEPT !.framebuffers = l.framebuffers - c.framebuffers,
              !.image_views  = l.image_views - c.image_views,
              !.swapchains   = l.swapchains - 1]

\* The objects a freshly built chain c adds.
Allocated(l, c) ==
    [ swapchains   |-> l.swapchains + 1,
      image_views  |-> l.image_views + c.image_views,
      framebuffers |-> l.framebuffers + c.framebuffers,
      depth_images |-> l.depth_images + (IF c.depth_image THEN 1 ELSE 0),
      depth_views  |-> l.depth_views + (IF c.depth_image_view THEN 1 ELSE 0),
      depth_memory |-> l.depth_memory + (IF c.depth_image_memory THEN 1 ELSE 0) ]

\* The chain as start-up and recreation build it: new, depth, framebuffers.
BuildChain(s, extra) ==
    create_framebuffers(create_depth_ressources(VkSwapchain_new(s, extra)))

\* The surfaces the render loop starts from: the window at its first size,
\* a surface that bounds the image count from below only.
InitialSurfaces ==
    {s \in Surfaces : /\ SurfaceOk(s)
                      /\ s.window = 1
                      /\ s.min_image_count = MaxMinImages
                      /\ s.max_image_count = 0}

\* draw_frame has written no uniform buffer and bound no descriptor set.
NoRecording == [uniform_buffer |-> -1, descriptor_set |-> -1]

(***************************************************************************)
(* State after a successful VkContext::new.                                *)
(***************************************************************************)
InitRender ==
    /\ pc = "idle"
    /\ caller = "none"
    /\ frame = 0
    /\ fences = [k \in Slots |-> TRUE]
    /\ imageAvailable = [k \in Slots |-> FALSE]
    /\ renderFinished = [k \in Slots |-> FALSE]
    /\ queue = <<>>
    /\ presents = {}
    /\ image_index = 0
    /\ surface \in InitialSurfaces
    /\ \E extra \in 0 .. MaxExtraImages :
          /\ swapchain = BuildChain(surface, extra)
          /\ live = Allocated(NoLive, swapchain)
    /\ stale = FALSE
    /\ log = <<>>
    /\ recreations = 0
    /\ lastResult = "none"
    /\ advances = 0
    /\ repeats = 0
    /\ recording = NoRecording

(***************************************************************************)
(* Shorthands of the actions.                                              *)
(***************************************************************************)
Logged(events) == log' = log \o events

Panic ==
    /\ pc' = "panicked"
    /\ lastResult' = "panic"

otherVars == <<selectVars, initVars, fnVars, dropVars, uploadVars>>

(***************************************************************************)
(* VkContext::draw_frame.  Its steps are cut where it blocks and where a   *)
(* Vulkan call answers; `log` keeps the order of the calls inside a step.  *)
(***************************************************************************)
\* A draw_frame that goes to the acquire without waiting for the fence.
DrawFrameCall_SkipWait ==
    /\ pc = "idle"
    /\ advances < MaxAdvances
    /\ pc' = "acquire_next_image"
    /\ UNCHANGED <<caller, frame, fences, imageAvailable, renderFinished,
                   queue, presents, image_index, swapchain, live, surface,
                   stale, log, recreations, lastResult,
                   advances, repeats, recording, otherVars>>

\* The application loop calls draw_frame (RedrawRequested); the model
\* follows it for MaxAdvances frames.
DrawFrameCall ==
    /\ pc = "idle"
    /\ advances < MaxAdvances
    /\ pc' = "wait_for_fences"
    /\ UNCHANGED <<caller, frame, fences, imageAvailable, renderFinished,
                   queue, presents, image_index, swapchain, live, surface,
                   stale, log, recreations, lastResult,
                   advances, repeats, recording, otherVars>>

\* A wait_for_fences with a zero timeout: it returns signalled or not.
WaitForFences_NoBlock ==
    /\ pc = "wait_for_fences"
    /\ pc' = "acquire_next_image"
    /\ Logged(<<"wait_for_fences">>)
    /\ UNCHANGED <<caller, frame, fences, imageAvailable, renderFinished,
                   queue, presents, image_index, swapchain, live, surface,
                   stale, recreations, lastResult,
                   advances, repeats, recording, otherVars>>

\* wait_for_fences(in_flight_fences[frame], u64::MAX): blocks until signalled.
WaitForFences ==
    /\ pc = "wait_for_fences"
    /\ fences[frame]
    /\ pc' = "acquire_next_image"
    /\ Logged(<<"wait_for_fences">>)
    /\ UNCHANGED <<caller, frame, fences, imageAvailable, renderFinished,
                   queue, presents, image_index, swapchain, live, surface,
                   stale, recreations, lastResult,
                   advances, repeats, recording, otherVars>>

\* What acquire_next_image can answer: out of date or suboptimal only once
\* the surface has changed under the chain.
AcquireResults ==
    IF stale THEN {"ok", "suboptimal", "out_of_date", "error"}
             ELSE {"ok", "error"}

\* The call draw_frame logs for the answer r of acquire_next_image.
AcquireCall(r) ==
    CASE r = "ok" -> "acquire_next_image"
      [] r = "suboptimal" -> "acquire_suboptimal"
      [] r = "out_of_date" -> "acquire_out_of_date"
      [] r = "error" -> "acquire_failed"

\* A match that ignores the suboptimal flag of a successful acquire.
AfterAcquire_IgnoreSuboptimal(r) ==
    CASE r = "ok" -> "record"
      [] r = "suboptimal" -> "record"
      [] r = "out_of_date" -> "resize"
      [] r = "error" -> "panicked"

\* Where draw_frame goes on the answer r of acquire_next_image.
AfterAcquire(r) ==
    CASE r = "ok" -> "record"
      [] r = "suboptimal" -> "resize"
      [] r = "out_of_date" -> "resize"
      [] r = "error" -> "panicked"

\* acquire_next_image(swapchain, u64::MAX, image_available_semaphores[frame])
\* and the match on its result.
AcquireNextImage ==
    /\ pc = "acquire_next_image"
    /\ \E r \in AcquireResults :
          /\ Logged(<<AcquireCall(r)>>)
          /\ pc' = AfterAcquire(r)
          /\ IF r \in {"ok", "suboptimal"}
             THEN /\ \E index \in 0 .. (swapchain.images - 1) :
                        image_index' = index
                  /\ imageAvailable' = [imageAvailable EXCEPT ![frame] = TRUE]
             ELSE UNCHANGED <<image_index, imageAvailable>>
          /\ caller' = IF AfterAcquire(r) = "resize" THEN "draw_frame"
                                                    ELSE caller
          /\ lastResult' = IF AfterAcquire(r) = "panicked" THEN "panic"
                                                          ELSE lastResult
    /\ UNCHANGED <<frame, fences, renderFinished, queue, presents, swapchain,
                   live, surface, stale, recreations,
                   advances, repeats, recording, otherVars>>

\* A recording that draws before it binds the descriptor set.
RenderCommands_DrawUnbound ==
    << "cmd_begin_render_pass", "cmd_bind_pipeline", "cmd_bind_vertex_buffers",
       "cmd_bind_index_buffer", "cmd_set_viewport", "cmd_set_scissor",
       "cmd_draw_indexed", "cmd_bind_descriptor_sets", "cmd_end_render_pass" >>

\* The commands record_command_buffer records between begin and end.
RenderCommands ==
    << "cmd_begin_render_pass", "cmd_bind_pipeline", "cmd_bind_vertex_buffers",
       "cmd_bind_index_buffer", "cmd_set_viewport", "cmd_set_scissor",
       "cmd_bind_descriptor_sets", "cmd_draw_indexed", "cmd_end_render_pass" >>

\* record_command_buffer: the calls it makes when begin fails (`?` returns
\* at once), when end fails, and when neither does.
record_command_buffer(r) ==
    CASE r = "begin_failed" -> <<"begin_command_buffer_failed">>
      [] r = "end_failed" ->
            <<"begin_command_buffer">> \o RenderCommands
            \o <<"end_command_buffer_failed">>
      [] r = "ok" ->
            <<"begin_command_buffer">> \o RenderCommands
            \o <<"end_command_buffer">>

\* An update_uniform_buffer that writes the buffer of the other slot.
update_uniform_buffer_Other(current_image) ==
    (current_image + 1) % MAX_FRAMES_IN_FLIGHT

\* update_uniform_buffer(current_image): the index of the mapped uniform
\* buffer the copy writes, uniform_buffers_mapped[current_image].
update_uniform_buffer(current_image) == current_image

\* The descriptor set record_command_buffer binds,
\* descriptor_sets[self.frame]; none when begin_command_buffer failed.
BoundDescriptorSet(r) ==
    IF r = "begin_failed" THEN NoRecording.descriptor_set ELSE frame

\* What draw_frame does with the Result of record_command_buffer:
\* `let _ = self.record_command_buffer(..)`, so it goes on to the submit.
AfterRecord(r) == "queue_submit"

\* update_uniform_buffer(frame), reset_fences, reset_command_buffer and
\* record_command_buffer(command_pool.buffers[frame], image_index).
RecordFrame ==
    /\ pc = "record"
    /\ fences' = [fences EXCEPT ![frame] = FALSE]
    /\ \E r \in {"ok", "begin_failed", "end_failed"} :
          /\ Logged(<<"update_uniform_buffer", "reset_fences",
                      "reset_command_buffer">> \o record_command_buffer(r))
          /\ recording' = [uniform_buffer |-> update_uniform_buffer(frame),
                           descriptor_set |-> BoundDescriptorSet(r)]
          /\ pc' = AfterRecord(r)
    /\ UNCHANGED <<caller, frame, imageAvailable, renderFinished, queue,
                   presents, image_index, swapchain, live, surface, stale,
                   recreations, lastResult, advances, repeats, otherVars>>

\* What draw_frame does with the Result of queue_submit: `let _ = ...`.
AfterSubmit(ok) == "queue_present"

\* queue_submit(graphics_queue, [submit_info], in_flight_fences[frame])
QueueSubmit ==
    /\ pc = "queue_submit"
    /\ \E ok \in BOOLEAN :
          /\ queue' = IF ok THEN Append(queue, [slot |-> frame]) ELSE queue
          /\ Logged(<<IF ok THEN "queue_submit" ELSE "queue_submit_failed">>)
          /\ pc' = AfterSubmit(ok)
    /\ UNCHANGED <<caller, frame, fences, imageAvailable, renderFinished,
                   presents, image_index, swapchain, live, surface, stale,
                   recreations, lastResult, advances, repeats,
                   recording, otherVars>>

\* A frame-advance step that leaves the slot index where it is.
NextSlot_Stay(f) == f

\* (self.frame + 1) % MAX_FRAMES_IN_FLIGHT
NextSlot(f) == (f + 1) % MAX_FRAMES_IN_FLIGHT

\* queue_present(present_queue, present_info).unwrap(), then
\* self.frame = (self.frame + 1) % MAX_FRAMES_IN_FLIGHT and the return.
QueuePresent ==
    /\ pc = "queue_present"
    /\ \E ok \in BOOLEAN :
          IF ok
          THEN /\ presents' = presents \cup {frame}
               /\ frame' = NextSlot(frame)
               /\ advances' = advances + 1
               /\ Logged(<<"queue_present", "advance">>)
               /\ pc' = "return"
               /\ lastResult' = "drawn"
          ELSE /\ Panic
               /\ Logged(<<"queue_present_failed">>)
               /\ UNCHANGED <<presents, frame, advances>>
    /\ UNCHANGED <<caller, fences, imageAvailable, renderFinished, queue,
                   image_index, swapchain, live, surface, stale, recreations,
                   repeats, recording, otherVars>>

\* The handler returns to the event loop; its locals are gone.
Return ==
    /\ pc = "return"
    /\ pc' = "idle"
    /\ caller' = "none"
    /\ image_index' = 0
    /\ log' = <<>>
    /\ lastResult' = "none"
    /\ recording' = NoRecording
    /\ UNCHANGED <<frame, fences, imageAvailable, renderFinished, queue,
                   presents, swapchain, live, surface, stale, recreations,
                   advances, repeats, otherVars>>

(***************************************************************************)
(* The GPU, the presentation engine and the window.                        *)
(***************************************************************************)
\* The oldest batch of the graphics queue executes: it waits on its slot's
\* image-acquired semaphore, signals render-finished and the slot's fence.
GpuComplete ==
    /\ pc # "panicked"
    /\ queue # <<>>
    /\ LET k == Head(queue).slot IN
          /\ imageAvailable[k]
          /\ imageAvailable' = [imageAvailable EXCEPT ![k] = FALSE]
          /\ renderFinished' = [renderFinished EXCEPT ![k] = TRUE]
          /\ fences' = [fences EXCEPT ![k] = TRUE]
    /\ queue' = Tail(queue)
    /\ UNCHANGED <<pc, caller, frame, presents, image_index, swapchain, live,
                   surface, stale, log, recreations, lastResult,
                   advances, repeats, recording, otherVars>>

\* A present request executes once the semaphore it waits on is signalled.
PresentExecute ==
    /\ pc # "panicked"
    /\ \E k \in presents :
          /\ renderFinished[k]
          /\ renderFinished' = [renderFinished EXCEPT ![k] = FALSE]
          /\ presents' = presents \ {k}
    /\ UNCHANGED <<pc, caller, frame, fences, imageAvailable, queue,
                   image_index, swapchain, live, surface, stale, log,
                   recreations, lastResult, advances, repeats,
                   recording, otherVars>>

\* The window is resized: the surface reports another extent.  The code
\* reads the surface in acquire_next_image and in VkSwapchain::new only, so
\* a change is taken between two handler calls.
SurfaceChange ==
    /\ pc = "idle"
    /\ ~stale
    /\ recreations < MaxRecreations
    /\ \E s \in Surfaces :
          /\ SurfaceOk(s)
          /\ s.window # surface.window
          /\ (s.current_extent = U32_MAX) = (surface.current_extent = U32_MAX)
          /\ s.min_image_count = surface.min_image_count
          /\ s.max_image_count = surface.max_image_count
          /\ s.formats = surface.formats
          /\ surface' = s
    /\ stale' = TRUE
    /\ repeats' = 0
    /\ UNCHANGED <<pc, caller, frame, fences, imageAvailable, renderFinished,
                   queue, presents, image_index, swapchain, live, log,
                   recreations, lastResult, advances, recording, otherVars>>

(***************************************************************************)
(* VkContext::resize and VkSwapchain::recreate.                            *)
(***************************************************************************)
\* The windowing layer's resize event calls VkContext::resize.
ResizeCall ==
    /\ pc = "idle"
    /\ recreations < MaxRecreations
    /\ pc' = "resize"
    /\ caller' = "app"
    /\ UNCHANGED <<frame, fences, imageAvailable, renderFinished, queue,
                   presents, image_index, swapchain, live, surface, stale,
                   log, recreations, lastResult,
                   advances, repeats, recording, otherVars>>

\* VkContext::resize: device_wait_idle, then query_swapchain_support(..)?.
\* Its Err goes to the caller; draw_frame unwraps it.
ResizeQuery ==
    /\ pc = "resize"
    /\ queue = <<>>
    /\ \E ok \in BOOLEAN :
          /\ Logged(<<"device_wait_idle", "query_swapchain_support">>)
          /\ IF ok
             THEN /\ pc' = "recreate"
                  /\ UNCHANGED lastResult
             ELSE IF caller = "draw_frame"
                  THEN Panic
                  ELSE /\ pc' = "return"
                       /\ lastResult' = "resize_err"
    /\ UNCHANGED <<caller, frame, fences, imageAvailable, renderFinished,
                   queue, presents, image_index, swapchain, live, surface,
                   stale, recreations, advances, repeats,
                   recording, otherVars>>

\* The destroy calls of VkSwapchain::cleanup, in its order.
CleanupCalls ==
    <<"destroy_framebuffers", "destroy_image_views", "destroy_swapchain">>

\* The calls of VkSwapchain::recreate after the cleanup, up to the one that
\* fails (each result is unwrapped), or all of them.
BuildCalls(failed) ==
    CASE failed = "new" -> <<"create_swapchain_failed">>
      [] failed = "depth" ->
            <<"create_swapchain", "create_image_views",
              "create_depth_image_failed">>
      [] failed = "framebuffers" ->
            <<"create_swapchain", "create_image_views", "create_depth_image",
              "create_depth_image_view", "create_framebuffers_failed">>
      [] failed = "none" ->
            <<"create_swapchain", "create_image_views", "create_depth_image",
              "create_depth_image_view", "create_framebuffers">>

\* The local `swapchain` of VkSwapchain::recreate when the call `failed`
\* panics, or none does.
BuiltChain(s, extra, failed) ==
    CASE failed = "new" -> NoChain
      [] failed = "depth" -> VkSwapchain_new(s, extra)
      [] failed = "framebuffers" ->
            create_depth_ressources(VkSwapchain_new(s, extra))
      [] failed = "none" -> BuildChain(s, extra)

\* VkSwapchain::recreate: device_wait_idle, self.cleanup(device),
\* VkSwapchain::new(..).unwrap(), create_depth_ressources(..).unwrap(),
\* create_framebuffers(..).unwrap(), *self = swapchain.
Recreate ==
    /\ pc = "recreate"
    /\ queue = <<>>
    /\ recreations' = recreations + 1
    /\ \E failed \in {"none", "new", "depth", "framebuffers"},
          extra \in 0 .. MaxExtraImages :
          LET built == BuiltChain(surface, extra, failed) IN
          /\ Logged(<<"device_wait_idle">> \o CleanupCalls
                    \o BuildCalls(failed))
          /\ live' = IF failed = "new"
                     THEN cleanup(live, swapchain)
                     ELSE Allocated(cleanup(live, swapchain), built)
          /\ IF failed = "none"
             THEN /\ swapchain' = built
                  /\ stale' = FALSE
                  /\ repeats' = repeats + 1
                  /\ pc' = "return"
                  /\ lastResult' =
                        IF caller = "draw_frame" THEN "aborted" ELSE "resized"
             ELSE /\ Panic
                  /\ UNCHANGED <<swapchain, stale, repeats>>
    /\ UNCHANGED <<caller, frame, fences, imageAvailable, renderFinished,
                   queue, presents, image_index, surface, advances,
                   recording, otherVars>>

(***************************************************************************)
(* Adapter selection: VkPhysicalDevice::choose_physical_device.            *)
(* An adapter is what the code reads of it: device type, limits, features, *)
(* queue families in index order, device extensions, and the answer of the *)
(* swapchain-support query.  A missing family index (None) is -1.          *)
(***************************************************************************)
MaxDevices == 2

None == -1

\* properties.limits.max_image_dimension2_d: the values enumerated.  The
\* last one is i32::MAX.
Dims == {4096, 4596, 5096, 16384, 2147483647}

\* Queue-family lists: each family is <<graphics?, present?>>.
FamilyLists ==
    { << <<TRUE, TRUE>> >>,
      << <<TRUE, FALSE>>, <<FALSE, TRUE>> >>,
      << <<FALSE, TRUE>>, <<TRUE, TRUE>> >>,
      << <<TRUE, FALSE>> >>,
      << <<FALSE, TRUE>> >> }

AllAdapters ==
    [ discrete        : BOOLEAN,
      dim             : Dims,
      geometry_shader : BOOLEAN,
      families        : FamilyLists,
      swapchain_ext   : BOOLEAN,
      formats         : 0 .. 1,
      present_modes   : 0 .. 1,
      query_ok        : BOOLEAN ]

\* The number of ways in which adapter a falls short.
Defects(a) ==
      (IF a.geometry_shader THEN 0 ELSE 1)
    + (IF a.families = << <<TRUE, TRUE>> >> THEN 0 ELSE 1)
    + (IF a.swapchain_ext THEN 0 ELSE 1)
    + (IF a.formats > 0 THEN 0 ELSE 1)
    + (IF a.present_modes > 0 THEN 0 ELSE 1)
    + (IF a.query_ok THEN 0 ELSE 1)

\* The adapters enumerated: those with at most one shortcoming.
Adapters == {a \in AllAdapters : Defects(a) <= 1}

I32_MAX == 2147483647

\* `max_image_dimension2_d as i32`: the value itself for every dimension
\* up to i32::MAX, which all of Dims are.
ToI32(x) == x

\* a + b on i32 overflows (a, b >= 0).
I32Overflows(a, b) == b > I32_MAX - a

\* a + b on i32 without overflow checks: the sum wraps around (a, b >= 0).
I32WrappingAdd(a, b) ==
    IF I32Overflows(a, b)
    THEN (b - (I32_MAX - a) - 1) + (-I32_MAX - 1)
    ELSE a + b

\* The first index (0-based) of fams at or after i whose component c is set.
RECURSIVE FirstFamily(_, _, _)
FirstFamily(fams, c, i) ==
    IF i > Len(fams) THEN None
    ELSE IF fams[i][c] THEN i - 1
    ELSE FirstFamily(fams, c, i + 1)

\* VkPhysicalDevice::find_queue_families: the first graphics-capable and the
\* first present-capable family, scanning in index order.
find_queue_families(a) ==
    [ graphics_family |-> FirstFamily(a.families, 1, 1),
      present_family  |-> FirstFamily(a.families, 2, 1) ]

\* The bonus rate_device has added when it adds the dimension.
TypeScore(a) == IF a.discrete THEN DISCRETE_BONUS ELSE 0

\* A rate_device that gives a discrete adapter no bonus.
rate_device_NoBonus(a) ==
    IF ~a.geometry_shader \/ find_queue_families(a).graphics_family = None
    THEN 0
    ELSE ToI32(a.dim)

\* VkPhysicalDevice::rate_device, the score (overflow checks off)
rate_device(a) ==
    LET score == I32WrappingAdd(TypeScore(a), ToI32(a.dim))
    IN  IF ~a.geometry_shader \/ find_queue_families(a).graphics_family = None
        THEN 0
        ELSE score

\* rate_device panics: `score += ..` overflows with overflow checks on.
rate_device_panics(a, checks) ==
    checks /\ I32Overflows(TypeScore(a), ToI32(a.dim))

\* VkPhysicalDevice::is_device_suitable
is_device_suitable(a) ==
    /\ a.swapchain_ext
    /\ find_queue_families(a).graphics_family # None
    /\ a.formats > 0
    /\ a.present_modes > 0

\* candidates.insert(score, ..) of a BTreeMap: an entry under the same key
\* is replaced.
BTreeInsert(cands, score, i) ==
    {c \in cands : c[1] # score} \cup {<<score, i>>}

\* The loop of choose_physical_device over devs[i..]: rate_device, then
\* query_swapchain_support, whose failure returns Err from the whole
\* function, then the insertion of a candidate.
RECURSIVE ScanDevices(_, _, _, _)
ScanDevices(devs, i, cands, checks) ==
    IF i > Len(devs) THEN [end |-> "done", cands |-> cands]
    ELSE IF rate_device_panics(devs[i], checks)
         THEN [end |-> "panic", cands |-> cands]
    ELSE IF ~devs[i].query_ok THEN [end |-> "err", cands |-> cands]
    ELSE IF rate_device(devs[i]) > 0 /\ is_device_suitable(devs[i])
         THEN ScanDevices(devs, i + 1,
                          BTreeInsert(cands, rate_device(devs[i]), i), checks)
         ELSE ScanDevices(devs, i + 1, cands, checks)

\* VkPhysicalDevice::choose_physical_device on the adapters devs, in a build
\* with overflow checks or without: Ok(index of the adapter, from 1), Err,
\* or a panic.
choose_physical_device(devs, checks) ==
    LET r == ScanDevices(devs, 1, {}, checks) IN
    IF devs = <<>> THEN [result |-> "Err", index |-> 0]
    ELSE IF r.end = "panic" THEN [result |-> "Panic", index |-> 0]
    ELSE IF r.end = "err" \/ r.cands = {} THEN [result |-> "Err", index |-> 0]
    ELSE LET best == CHOOSE c \in r.cands : \A d \in r.cands : d[1] <= c[1]
         IN  [result |-> "Ok", index |-> best[2]]

Pending == [result |-> "pending", index |-> 0]

\* choose_physical_device is applied to the enumerated adapters.
ChooseDevice ==
    /\ chosen = Pending
    /\ \E checks \in BOOLEAN :
          chosen' = choose_physical_device(devices, checks)
    /\ UNCHANGED <<devices, renderVars, initVars, fnVars, dropVars,
                   uploadVars>>

(***************************************************************************)
(* Start-up: VkContext::new.  NewCalls lists, in program order, the calls  *)
(* of VkContext::new that can fail, each with what the code does with the  *)
(* failure: `?` / map_err returns Err to the caller, unwrap() panics.      *)
(***************************************************************************)
Propagated(site, call) == [site |-> site, call |-> call, onFail |-> "Err"]

Unwrapped(site, call) == [site |-> site, call |-> call, onFail |-> "Panic"]

\* VkBuffer::create_buffer
CreateBufferCalls(site) ==
    << Unwrapped(site, "create_buffer"),
       Unwrapped(site, "find_memory_type"),
       Unwrapped(site, "allocate_memory"),
       Unwrapped(site, "bind_buffer_memory") >>

\* VkBuffer::copy_buffer
CopyBufferCalls(site) ==
    << Unwrapped(site, "allocate_command_buffers"),
       Unwrapped(site, "begin_command_buffer"),
       Unwrapped(site, "end_command_buffer"),
       Unwrapped(site, "queue_submit"),
       Unwrapped(site, "queue_wait_idle") >>

\* VkBuffer::new
VkBufferNewCalls(site) ==
    CreateBufferCalls(site) \o << Unwrapped(site, "map_memory") >>
    \o CreateBufferCalls(site) \o CopyBufferCalls(site)

\* VkContext::create_uniform_buffers, one round of its loop
UniformBufferCalls(site) ==
    CreateBufferCalls(site) \o << Propagated(site, "map_memory") >>

\* VkPipeline::new
PipelineCalls ==
    << Propagated("pipeline", "create_render_pass"),
       Propagated("pipeline", "create_descriptor_set_layout"),
       Propagated("pipeline", "open_shader_file_frag"),
       Propagated("pipeline", "read_spv_frag"),
       Propagated("pipeline", "open_shader_file_vert"),
       Propagated("pipeline", "read_spv_vert"),
       Propagated("pipeline", "create_shader_module_frag"),
       Propagated("pipeline", "create_shader_module_vert"),
       Propagated("pipeline", "create_pipeline_layout"),
       Propagated("pipeline", "create_graphics_pipelines") >>

\* VkSyncObjects::new, one round of its loop
SyncCalls(site) ==
    << Propagated(site, "create_semaphore"),
       Propagated(site, "create_semaphore"),
       Propagated(site, "create_fence") >>

\* VkContext::new
NewCalls ==
    << Propagated("new", "VkInstance_new"),
       Propagated("new", "VkSurface_new"),
       Propagated("new", "choose_physical_device"),
       Propagated("new", "create_device"),
       Propagated("new", "query_swapchain_support"),
       Propagated("new", "VkRenderPass_new"),
       Propagated("new", "VkSwapchain_new") >>
    \o PipelineCalls
    \o << Propagated("command_pool", "create_command_pool"),
          Propagated("command_pool", "allocate_command_buffers") >>
    \o VkBufferNewCalls("vertex_buffer")
    \o VkBufferNewCalls("index_buffer")
    \o UniformBufferCalls("uniform_buffer_0")
    \o UniformBufferCalls("uniform_buffer_1")
    \o << Propagated("new", "create_descriptor_pool"),
          Propagated("new", "allocate_descriptor_sets") >>
    \o SyncCalls("sync_0")
    \o SyncCalls("sync_1")

\* VkContext::new makes its next call; the call numbered ini.failAt fails.
NewStep ==
    /\ ini.outcome = "running"
    /\ ini' =
         IF ini.step > Len(NewCalls) THEN [ini EXCEPT !.outcome = "Ok"]
         ELSE IF ini.step = ini.failAt
              THEN [ini EXCEPT !.outcome = NewCalls[ini.step].onFail]
              ELSE [ini EXCEPT !.step = ini.step + 1]
    /\ UNCHANGED <<renderVars, selectVars, fnVars, dropVars, uploadVars>>

\* Start-up over: the context exists.
Started == [step |-> Len(NewCalls) + 1, failAt |-> 0, outcome |-> "Ok"]

(***************************************************************************)
(* Shutdown: the drop of VkContext.  Drop::drop of VkContext runs first,   *)
(* then the fields are dropped in the order of their declaration, each     *)
(* with its own Drop::drop followed by its fields.  DropCalls lists the    *)
(* calls made, in program order.  VkPipeline and VkSwapchain implement no  *)
(* Drop and hold raw handles: their drop makes no call.  The surface and   *)
(* the instance, dropped after the device, are not objects of the device.  *)
(***************************************************************************)
\* The objects VkContext::new creates from the device, the swapchain's
\* apart (those are counted in `live`).
ContextObjects ==
    UNION {{<<"uniform_buffer", k>>, <<"uniform_memory", k>>,
            <<"image_available", k>>, <<"render_finished", k>>,
            <<"fence", k>>, <<"command_buffer", k>>} : k \in Slots}
    \cup {<<"descriptor_pool", 0>>, <<"command_pool", 0>>,
          <<"vertex_buffer", 0>>, <<"vertex_memory", 0>>,
          <<"index_buffer", 0>>, <<"index_memory", 0>>,
          <<"render_pass", 0>>, <<"descriptor_set_layout", 0>>,
          <<"pipeline", 0>>, <<"pipeline_layout", 0>>}

\* The Arc<VkDevice> handles alive when the context is dropped: the
\* context's own, one per queue, one in the command pool and one in each of
\* its command buffers, one per geometry buffer, one in the sync objects.
DeviceRefs == 1 + 2 + 1 + MAX_FRAMES_IN_FLIGHT + 2 + 1

Wait(call) == [kind |-> "wait", call |-> call, object |-> <<"device", 0>>]

Destroy(call, object) == [kind |-> "destroy", call |-> call, object |-> object]

Use(call, object) == [kind |-> "use", call |-> call, object |-> object]

\* A field of type Arc<VkDevice> is dropped.
Release == [kind |-> "release", call |-> "drop_arc", object |-> <<"device", 0>>]

\* The loop of Drop::drop of VkContext from index i on.
RECURSIVE UniformBufferDrops(_)
UniformBufferDrops(i) ==
    IF i >= MAX_FRAMES_IN_FLIGHT THEN <<>>
    ELSE << Destroy("destroy_buffer", <<"uniform_buffer", i>>),
            Destroy("free_memory", <<"uniform_memory", i>>) >>
         \o UniformBufferDrops(i + 1)

\* The loop of Drop::drop of VkSyncObjects from index i on.
RECURSIVE SyncDrops(_)
SyncDrops(i) ==
    IF i >= MAX_FRAMES_IN_FLIGHT THEN <<>>
    ELSE << Destroy("destroy_semaphore", <<"render_finished", i>>),
            Destroy("destroy_semaphore", <<"image_available", i>>),
            Destroy("destroy_fence", <<"fence", i>>) >>
         \o SyncDrops(i + 1)

\* Drop for VkBuffer, then its field device.
BufferDrops(name) ==
    << Destroy("free_memory", <<name \o "_memory", 0>>),
       Destroy("destroy_buffer", <<name \o "_buffer", 0>>),
       Release >>

\* The loop of Drop::drop of VkCommandPool from buffer i on.
RECURSIVE FreeCommandBuffers(_)
FreeCommandBuffers(i) ==
    IF i >= MAX_FRAMES_IN_FLIGHT THEN <<>>
    ELSE << Destroy("free_command_buffers", <<"command_buffer", i>>) >>
         \o FreeCommandBuffers(i + 1)

\* Drop for VkCommandPool, then its fields device and buffers (each
\* VkCommandBuffer holds an Arc<VkDevice>).
CommandPoolDrops ==
    FreeCommandBuffers(0)
    \o << Destroy("destroy_command_pool", <<"command_pool", 0>>), Release >>
    \o [i \in 1 .. MAX_FRAMES_IN_FLIGHT |-> Release]

\* Drop for VkQueue, then its field device.
QueueDrops(name) ==
    << Use("queue_wait_idle", <<name, 0>>), Release >>

\* Drop for VkContext, then the fields of VkContext in declaration order:
\* sync, (raw handles), vertex_buffer, index_buffer, command_pool,
\* render_pass, pipeline, swapchain, present_queue, graphics_queue, device.
DropCalls ==
    << Wait("device_wait_idle") >>
    \o UniformBufferDrops(0)
    \o << Destroy("destroy_descriptor_pool", <<"descriptor_pool", 0>>) >>
    \o SyncDrops(0) \o << Release >>
    \o BufferDrops("vertex")
    \o BufferDrops("index")
    \o CommandPoolDrops
    \o QueueDrops("present_queue")
    \o QueueDrops("graphics_queue")
    \o << Release >>

\* No shutdown in progress.
NotDropping ==
    [ step |-> 0, waited |-> FALSE, objects |-> ContextObjects,
      refs |-> DeviceRefs, device |-> TRUE, early |-> {}, late |-> {},
      panicked |-> FALSE ]

\* The context goes out of scope.
Dropping == [NotDropping EXCEPT !.step = 1]

\* The drop makes its call c.  `early` collects what is destroyed before
\* the idle wait, `late` what is destroyed or used after destroy_device.
\* The last Arc<VkDevice> released runs Drop for VkDevice: destroy_device.
\* A failing queue_wait_idle panics (unwrap); the fields that remain are
\* dropped all the same.
DropCall(t, c, ok) ==
    CASE c.kind = "wait" -> [t EXCEPT !.waited = TRUE]
      [] c.kind = "destroy" ->
            [t EXCEPT !.objects = t.objects \ {c.object},
                      !.early = IF t.waited THEN t.early
                                ELSE t.early \cup {c.object},
                      !.late = IF t.device THEN t.late
                               ELSE t.late \cup {c.object}]
      [] c.kind = "use" ->
            [t EXCEPT !.late = IF t.device THEN t.late
                               ELSE t.late \cup {c.object},
                      !.panicked = t.panicked \/ ~ok]
      [] c.kind = "release" ->
            [t EXCEPT !.refs = t.refs - 1,
                      !.device = t.device /\ t.refs > 1]

\* The drop of VkContext makes its next call.
DropStep ==
    /\ teardown.step \in 1 .. Len(DropCalls)
    /\ \E ok \in IF DropCalls[teardown.step].kind = "use"
                 THEN BOOLEAN ELSE {TRUE} :
          teardown' =
             [DropCall(teardown, DropCalls[teardown.step], ok)
                 EXCEPT !.step = teardown.step + 1]
    /\ UNCHANGED <<renderVars, selectVars, initVars, fnVars, uploadVars>>

\* The contexts that are dropped: an idle context after k resize calls.
AtExit ==
    /\ pc = "idle"
    /\ caller = "none"
    /\ frame = 0
    /\ fences = [k \in Slots |-> TRUE]
    /\ imageAvailable = [k \in Slots |-> FALSE]
    /\ renderFinished = [k \in Slots |-> FALSE]
    /\ queue = <<>>
    /\ presents = {}
    /\ image_index = 0
    /\ surface \in InitialSurfaces
    /\ stale = FALSE
    /\ log = <<>>
    /\ lastResult = "none"
    /\ advances = 0
    /\ recreations \in 0 .. MaxRecreations
    /\ repeats = recreations
    /\ recording = NoRecording
    /\ \E extra \in 0 .. MaxExtraImages :
          /\ swapchain = BuildChain(surface, extra)
          /\ live = [Allocated(NoLive, swapchain) EXCEPT
                       !.depth_images = 1 + recreations,
                       !.depth_views = 1 + recreations,
                       !.depth_memory = 1 + recreations]

(***************************************************************************)
(* The helper functions, each applied to one input: `helper` holds the     *)
(* function's name, its input and, once applied, its result.               *)
(***************************************************************************)
NoCall == [fn |-> "none", arg |-> <<>>, done |-> TRUE, result |-> <<>>]

Apply(fn, arg) == [fn |-> fn, arg |-> arg, done |-> FALSE, result |-> <<>>]

\* The helper fn is applied to the input of the call: its result is r.
Returns(fn, r) ==
    /\ helper.fn = fn
    /\ ~helper.done
    /\ helper' = [helper EXCEPT !.done = TRUE, !.result = r]
    /\ UNCHANGED <<renderVars, selectVars, initVars, dropVars, uploadVars>>

\* VkSwapchain::new computes the image count for the surface helper.arg.
ImageCountCall == Returns("image_count", image_count(helper.arg))

MaxTypes == 3

MaxLen == 3

MaxElems == 2

\* The sequences over S of the lengths lo .. hi.
SeqsOf(S, lo, hi) == UNION {[1 .. n -> S] : n \in lo .. hi}

\* The property flags of the memory types enumerated.
TypeFlags ==
    { {}, {"DEVICE_LOCAL"}, {"HOST_VISIBLE"},
      {"HOST_VISIBLE", "HOST_COHERENT"},
      {"DEVICE_LOCAL", "HOST_VISIBLE", "HOST_COHERENT"} }

\* The properties VkBuffer::new and create_uniform_buffers ask for.
RequiredFlags == { {"DEVICE_LOCAL"}, {"HOST_VISIBLE", "HOST_COHERENT"} }

\* `mask & (1 << index) != 0`
Bit(mask, index) == (mask \div (2 ^ index)) % 2 = 1

\* A find_memory_type that does not look at the type filter.
FindMemoryTypeFrom_NoFilter(types, type_filter, properties, index) ==
    IF \E i \in 1 .. Len(types) : (types[i] \cap properties) = properties
    THEN [ok |-> TRUE,
          index |-> (CHOOSE i \in 1 .. Len(types) :
                        /\ (types[i] \cap properties) = properties
                        /\ \A j \in 1 .. (i - 1) :
                              (types[j] \cap properties) # properties) - 1]
    ELSE [ok |-> FALSE, index |-> 0]

\* The loop of find_memory_type from `index` on; types[i + 1] holds the
\* property flags of memory type i.
RECURSIVE FindMemoryTypeFrom(_, _, _, _)
FindMemoryTypeFrom(types, type_filter, properties, index) ==
    IF index >= Len(types) THEN [ok |-> FALSE, index |-> 0]
    ELSE IF /\ Bit(type_filter, index)
            /\ (types[index + 1] \cap properties) = properties
         THEN [ok |-> TRUE, index |-> index]
    ELSE FindMemoryTypeFrom(types, type_filter, properties, index + 1)

\* VkBuffer::find_memory_type
find_memory_type(types, type_filter, properties) ==
    FindMemoryTypeFrom(types, type_filter, properties, 0)

FindMemoryTypeCall ==
    Returns("find_memory_type",
            find_memory_type(helper.arg.types, helper.arg.type_filter,
                             helper.arg.properties))

ChooseSurfaceFormatCall ==
    Returns("choose_surface_format", choose_surface_format(helper.arg))

\* The present modes enumerated.
PresentModes == {"IMMEDIATE", "MAILBOX", "FIFO"}

\* The present-mode lists of a surface: FIFO is always among them.
PresentModeLists ==
    {ms \in SeqsOf(PresentModes, 1, MaxLen) :
        \E i \in 1 .. Len(ms) : ms[i] = "FIFO"}

\* A choose_present_mode that looks at the first mode only.
HasMailboxFrom_FirstOnly(available_present_modes, i) ==
    available_present_modes[1] = "MAILBOX"

\* The loop of choose_present_mode from position i on: it returns MAILBOX.
RECURSIVE HasMailboxFrom(_, _)
HasMailboxFrom(available_present_modes, i) ==
    IF i > Len(available_present_modes) THEN FALSE
    ELSE IF available_present_modes[i] = "MAILBOX" THEN TRUE
    ELSE HasMailboxFrom(available_present_modes, i + 1)

\* VkContext::choose_present_mode / VkSwapchain::choose_present_mode
choose_present_mode(available_present_modes) ==
    IF HasMailboxFrom(available_present_modes, 1) THEN "MAILBOX" ELSE "FIFO"

ChoosePresentModeCall ==
    Returns("choose_present_mode", choose_present_mode(helper.arg))

\* std::mem::size_of::<f32>()
SIZE_OF_F32 == 4

\* A byte of memory nothing has written yet.
Uninit == -1

\* The f32 values enumerated, as their bytes in memory: 1.0 and -2.0.
F32s == { <<0, 0, 128, 63>>, <<0, 0, 0, 192>> }

\* The memory of a slice of f32: the bytes of its elements, in order.
RECURSIVE to_bytes(_)
to_bytes(data) ==
    IF data = <<>> THEN <<>> ELSE Head(data) \o to_bytes(Tail(data))

\* The memory of a buffer of `size` bytes that was just allocated.
Allocate(size) == [i \in 1 .. size |-> Uninit]

\* A copy of `count` bytes instead of `count` elements.
copy_nonoverlapping_Bytes(src, dst, count) ==
    [i \in 1 .. Len(dst) |-> IF i <= count THEN src[i] ELSE dst[i]]

\* std::ptr::copy_nonoverlapping(src, dst as *mut f32, count): `count`
\* elements of size_of::<f32>() bytes each.
copy_nonoverlapping(src, dst, count) ==
    [i \in 1 .. Len(dst) |->
        IF i <= count * SIZE_OF_F32 THEN src[i] ELSE dst[i]]

\* cmd_copy_buffer with the one region {src_offset 0, dst_offset 0, size},
\* once the queue is idle.
cmd_copy_buffer(src, dst, size) ==
    [i \in 1 .. Len(dst) |-> IF i <= size THEN src[i] ELSE dst[i]]

\* VkBuffer::new when every Vulkan call succeeds: the staging buffer is
\* filled from data, the target is filled from the staging buffer.
VkBuffer_new(data) ==
    LET size    == SIZE_OF_F32 * Len(data)
        staging == copy_nonoverlapping(to_bytes(data), Allocate(size),
                                       Len(data))
        target  == cmd_copy_buffer(staging, Allocate(size), size)
    IN  [outcome |-> "Ok", target |-> target, size |-> Len(data)]

\* VkBuffer::new on the array helper.arg; a Vulkan call that fails is
\* unwrapped.
VkBufferNewCall ==
    \E failed \in BOOLEAN :
        Returns("VkBuffer_new",
                IF failed
                THEN [outcome |-> "Panic", target |-> <<>>, size |-> 0]
                ELSE VkBuffer_new(helper.arg))

(***************************************************************************)
(* record_command_buffer with the arguments of its commands.  The input    *)
(* is the context it reads (frame, the swapchain's extent, the index       *)
(* buffer VkBuffer::new returned for `indices`), the image index and what  *)
(* begin and end answer.                                                   *)
(***************************************************************************)
\* The arguments record_command_buffer gives to the command cmd.
CommandArgs(cmd, a) ==
    CASE cmd = "cmd_begin_render_pass" -> <<a.image_index, a.extent>>
      [] cmd = "cmd_bind_vertex_buffers" -> <<0>>
      [] cmd = "cmd_bind_index_buffer" -> <<0, 32>>
      [] cmd = "cmd_set_viewport" -> <<a.extent>>
      [] cmd = "cmd_set_scissor" -> <<a.extent>>
      [] cmd = "cmd_bind_descriptor_sets" -> <<a.frame>>
      [] cmd = "cmd_draw_indexed" ->
            <<VkBuffer_new(a.indices).size, 1, 0, 0, 0>>
      [] OTHER -> <<>>

\* The calls of record_command_buffer on the input a, each with its
\* arguments.
RecordedCommands(a) ==
    [i \in 1 .. Len(record_command_buffer(a.r)) |->
        [cmd  |-> record_command_buffer(a.r)[i],
         args |-> CommandArgs(record_command_buffer(a.r)[i], a)]]

RecordCommandBufferCall ==
    Returns("record_command_buffer", RecordedCommands(helper.arg))

\* The inputs of record_command_buffer: the image index is one of the
\* chain's.
RecordInputs ==
    [ frame       : Slots,
      extent      : 1 .. MaxExtent,
      image_index : 0 .. (MaxMinImages + MaxExtraImages),
      indices     : SeqsOf(F32s, 0, MaxElems),
      r           : {"ok", "begin_failed", "end_failed"} ]

(***************************************************************************)
(* VkBuffer::new step by step, with the graphics queue executing the copy  *)
(* on its own.  A buffer is "none" before it is created, then "alive",     *)
(* then "destroyed"; `pending` is the copy submitted and not yet executed. *)
(***************************************************************************)
NoUpload ==
    [ pc |-> "off", data |-> <<>>, staging |-> "none", staging_memory |-> <<>>,
      target |-> "none", target_memory |-> <<>>, pending |-> FALSE,
      copied |-> FALSE, outcome |-> "running" ]

\* VkBuffer::new is called with the array data.
Upload(data) == [NoUpload EXCEPT !.pc = "create_staging", !.data = data]

\* A call of VkBuffer::new answers; a failure is unwrapped.
UploadStep(pc0, ok, next) ==
    /\ upload.pc = pc0
    /\ upload.outcome = "running"
    /\ upload' = IF ok THEN next
                 ELSE [upload EXCEPT !.pc = "panicked", !.outcome = "Panic"]
    /\ UNCHANGED <<renderVars, selectVars, initVars, fnVars, dropVars>>

\* create_buffer for the staging buffer, of size_of::<f32>() * data.len()
\* bytes.
CreateStaging ==
    \E ok \in BOOLEAN :
        UploadStep("create_staging", ok,
            [upload EXCEPT !.pc = "fill", !.staging = "alive",
                !.staging_memory = Allocate(SIZE_OF_F32 * Len(upload.data))])

\* map_memory, copy_nonoverlapping, unmap_memory
FillStaging ==
    \E ok \in BOOLEAN :
        UploadStep("fill", ok,
            [upload EXCEPT !.pc = "create_target",
                !.staging_memory =
                    copy_nonoverlapping(to_bytes(upload.data),
                                        upload.staging_memory,
                                        Len(upload.data))])

\* create_buffer for the target buffer
CreateTarget ==
    \E ok \in BOOLEAN :
        UploadStep("create_target", ok,
            [upload EXCEPT !.pc = "copy_buffer", !.target = "alive",
                !.target_memory = Allocate(SIZE_OF_F32 * Len(upload.data))])

\* copy_buffer records the copy: allocate_command_buffers,
\* begin_command_buffer, cmd_copy_buffer, end_command_buffer.
RecordCopy ==
    \E ok \in BOOLEAN :
        UploadStep("copy_buffer", ok, [upload EXCEPT !.pc = "queue_submit"])

\* queue_submit(queue, [submit_info], Fence::null()).unwrap()
SubmitCopy ==
    \E ok \in BOOLEAN :
        UploadStep("queue_submit", ok,
            [upload EXCEPT !.pc = "queue_wait_idle", !.pending = TRUE])

\* A copy_buffer that does not wait for the queue.
QueueWaitIdle_NoWait ==
    \E ok \in BOOLEAN :
        UploadStep("queue_wait_idle", ok,
                   [upload EXCEPT !.pc = "free_command_buffers"])

\* queue_wait_idle(queue).unwrap(): returns once the queue has executed
\* what was submitted, or with an error.
QueueWaitIdle ==
    \E ok \in BOOLEAN :
        /\ ok => ~upload.pending
        /\ UploadStep("queue_wait_idle", ok,
                      [upload EXCEPT !.pc = "free_command_buffers"])

\* free_command_buffers: copy_buffer returns.
FreeCopyCommands ==
    UploadStep("free_command_buffers", TRUE, [upload EXCEPT !.pc = "cleanup"])

\* destroy_buffer(staging_buffer), free_memory(staging_buffer_memory) and
\* Ok(VkBuffer {..}).
DestroyStaging ==
    UploadStep("cleanup", TRUE,
        [upload EXCEPT !.pc = "returned", !.staging = "destroyed",
                       !.outcome = "Ok"])

\* The graphics queue executes the copy: size bytes from the staging buffer
\* to the target; what it reads of a destroyed buffer is undefined.
CopyExecutes ==
    /\ upload.pending
    /\ \E src \in IF upload.staging = "alive"
                  THEN {upload.staging_memory}
                  ELSE {upload.staging_memory,
                        Allocate(Len(upload.staging_memory))} :
          upload' = [upload EXCEPT
                        !.pending = FALSE, !.copied = TRUE,
                        !.target_memory =
                            cmd_copy_buffer(src, upload.target_memory,
                                SIZE_OF_F32 * Len(upload.data))]
    /\ UNCHANGED <<renderVars, selectVars, initVars, fnVars, dropVars>>

\* The inputs of the helper functions.
Calls ==
    {Apply("image_count", s) : s \in {t \in Surfaces : SurfaceOk(t)}}
    \cup {Apply("find_memory_type", a) :
            a \in [ types       : SeqsOf(TypeFlags, 0, MaxTypes),
                    type_filter : 0 .. (2 ^ MaxTypes - 1),
                    properties  : RequiredFlags ]}
    \cup {Apply("choose_surface_format", fs) :
            fs \in SeqsOf(SurfaceFormats, 1, MaxLen)}
    \cup {Apply("choose_present_mode", ms) : ms \in PresentModeLists}
    \cup {Apply("VkBuffer_new", data) : data \in SeqsOf(F32s, 0, MaxElems)}
    \cup {Apply("record_command_buffer", a) : a \in RecordInputs}

(***************************************************************************)
(* Specifications.                                                         *)
(***************************************************************************)
\* The render loop of a context that VkContext::new returned.
Init ==
    /\ InitRender
    /\ devices = <<>>
    /\ chosen = Pending
    /\ ini = Started
    /\ helper = NoCall
    /\ teardown = NotDropping
    /\ upload = NoUpload

Next ==
    \/ DrawFrameCall
    \/ WaitForFences
    \/ AcquireNextImage
    \/ RecordFrame
    \/ QueueSubmit
    \/ QueuePresent
    \/ Return
    \/ GpuComplete
    \/ PresentExecute
    \/ SurfaceChange
    \/ ResizeCall
    \/ ResizeQuery
    \/ Recreate

Spec == Init /\ [][Next]_vars

\* No context: the render variables of the other specifications.
RenderParked ==
    /\ pc = "off"
    /\ caller = "none"
    /\ frame = 0
    /\ fences = [k \in Slots |-> TRUE]
    /\ imageAvailable = [k \in Slots |-> FALSE]
    /\ renderFinished = [k \in Slots |-> FALSE]
    /\ queue = <<>>
    /\ presents = {}
    /\ image_index = 0
    /\ surface = CHOOSE s \in Surfaces : SurfaceOk(s)
    /\ swapchain = NoChain
    /\ live = NoLive
    /\ stale = FALSE
    /\ log = <<>>
    /\ recreations = 0
    /\ lastResult = "none"
    /\ advances = 0
    /\ repeats = 0
    /\ recording = NoRecording

\* Adapter selection over every list of at most MaxDevices adapters.
InitSelect ==
    /\ RenderParked
    /\ devices \in UNION {[1 .. n -> Adapters] : n \in 0 .. MaxDevices}
    /\ chosen = Pending
    /\ ini = Started
    /\ helper = NoCall
    /\ teardown = NotDropping
    /\ upload = NoUpload

NextSelect == ChooseDevice

SpecSelect == InitSelect /\ [][NextSelect]_vars

\* VkContext::new with any one of its calls failing, or none.
InitNew ==
    /\ RenderParked
    /\ devices = <<>>
    /\ chosen = Pending
    /\ \E f \in 0 .. Len(NewCalls) :
          ini = [step |-> 1, failAt |-> f, outcome |-> "running"]
    /\ helper = NoCall
    /\ teardown = NotDropping
    /\ upload = NoUpload

NextNew == NewStep

SpecNew == InitNew /\ [][NextNew]_vars

\* Each helper function on each of its inputs.
InitHelpers ==
    /\ RenderParked
    /\ devices = <<>>
    /\ chosen = Pending
    /\ ini = Started
    /\ helper \in Calls
    /\ teardown = NotDropping
    /\ upload = NoUpload

NextHelpers ==
    \/ ImageCountCall
    \/ FindMemoryTypeCall
    \/ ChooseSurfaceFormatCall
    \/ ChoosePresentModeCall
    \/ VkBufferNewCall
    \/ RecordCommandBufferCall

SpecHelpers == InitHelpers /\ [][NextHelpers]_vars

\* Shutdown of an idle context.
InitDrop ==
    /\ AtExit
    /\ devices = <<>>
    /\ chosen = Pending
    /\ ini = Started
    /\ helper = NoCall
    /\ teardown = Dropping
    /\ upload = NoUpload

NextDrop == DropStep

SpecDrop == InitDrop /\ [][NextDrop]_vars

\* VkBuffer::new on every array of at most MaxElems elements.
InitUpload ==
    /\ RenderParked
    /\ devices = <<>>
    /\ chosen = Pending
    /\ ini = Started
    /\ helper = NoCall
    /\ teardown = NotDropping
    /\ \E data \in SeqsOf(F32s, 0, MaxElems) : upload = Upload(data)

NextUpload ==
    \/ CreateStaging
    \/ FillStaging
    \/ CreateTarget
    \/ RecordCopy
    \/ SubmitCopy
    \/ QueueWaitIdle
    \/ FreeCopyCommands
    \/ DestroyStaging
    \/ CopyExecutes

SpecUpload == InitUpload /\ [][NextUpload]_vars

(***************************************************************************)
(* Properties of the frame scheduler and of swapchain recreation (Spec).   *)
(***************************************************************************)
\* The call e was made by the handler call that is running.
Has(e) == \E i \in 1 .. Len(log) : log[i] = e

\* A batch of slot k is on the graphics queue, not completed.
Pending_(k) == \E i \in 1 .. Len(queue) : queue[i].slot = k

AcquireAborted == Has("acquire_out_of_date") \/ Has("acquire_suboptimal")

\* C3: when the acquire reports out-of-date, or success with the suboptimal
\* flag, draw_frame goes to the recreation and returns without resetting the
\* slot's fence, without re-recording or submitting the command buffer,
\* without presenting and without advancing the slot index; the slot's fence
\* is still signalled afterwards.
C3_AbortState ==
    AcquireAborted =>
        /\ fences[frame]
        /\ pc \in {"resize", "recreate", "return", "panicked"}
        /\ caller = "draw_frame"
        /\ ~Has("reset_fences")
        /\ ~Has("reset_command_buffer")
        /\ ~Has("begin_command_buffer")
        /\ ~Has("begin_command_buffer_failed")
        /\ ~Has("queue_submit")
        /\ ~Has("queue_submit_failed")
        /\ ~Has("queue_present")
        /\ ~Has("queue_present_failed")
        /\ ~Has("advance")
        /\ pc = "return" => /\ lastResult = "aborted"
                            /\ Has("create_swapchain")
                            /\ Has("create_framebuffers")

C3_AbortKeepsSlot ==
    (AcquireAborted \/ AcquireAborted') =>
        /\ frame' = frame
        /\ \A k \in Slots : fences[k] => fences'[k]

C3_AbortedFrame == []C3_AbortState /\ [][C3_AbortKeepsSlot]_vars

\* draw_frame returns after a suboptimal acquire and the recreation.
C3_Witness ==
    /\ pc = "return"
    /\ lastResult = "aborted"
    /\ Has("acquire_suboptimal")
    /\ fences[frame]

\* The calls of the recreation that has just returned.
RecreationCalls ==
    <<"device_wait_idle", "destroy_framebuffers", "destroy_image_views",
      "destroy_depth_resources", "destroy_swapchain", "create_swapchain",
      "create_image_views", "create_depth_image", "create_depth_image_view",
      "create_framebuffers">>

\* C4: every recreation waits for the device to be idle, then destroys the
\* framebuffers, the image views, the depth resources and the swapchain
\* object of the old chain, and only then creates the new chain.
C4_RecreationOrder ==
    (pc = "return" /\ lastResult \in {"resized", "aborted"}) =>
        /\ Len(log) >= Len(RecreationCalls)
        /\ SubSeq(log, Len(log) - Len(RecreationCalls) + 1, Len(log))
              = RecreationCalls

\* C5: recreation leaks nothing: between two handler calls exactly one depth
\* image, one depth view, one depth memory allocation and one swapchain
\* object are alive.
C5_NothingLeaks ==
    pc = "idle" =>
        /\ live.depth_images = 1
        /\ live.depth_views = 1
        /\ live.depth_memory = 1
        /\ live.swapchains = 1

C7_SubmitOnlyRecorded ==
    (pc = "queue_submit" \/ Has("queue_submit") \/ Has("queue_submit_failed"))
        => Has("end_command_buffer")

\* C8: when the queue submit fails, draw_frame does not go on to present the
\* image and to advance the slot index.
C8_SubmitFailureStops ==
    Has("queue_submit_failed") =>
        /\ pc # "queue_present"
        /\ ~Has("queue_present")
        /\ ~Has("advance")

\* C18: the frame-slot index starts at 0, is always 0 or 1, and after k
\* executions of the frame-advance step equals k mod 2; no other operation
\* changes it.
C18_SlotIsAdvancesMod2 ==
    /\ frame \in {0, 1}
    /\ frame = advances % 2

\* The frame-advance step has run 5 times: the slot index is 1.
C18_Witness ==
    /\ advances = 5
    /\ frame = 1

\* A recreation completes in this step, the surface being the one the
\* chain it replaces was created for by the recreation before it.
RecreatedAgain ==
    /\ pc = "recreate"
    /\ pc' = "return"
    /\ ~stale
    /\ repeats >= 1

NoReader(k) == \A i \in 1 .. Len(queue) : queue[i].slot # k

C26_AcquireSemaphoreUnsignalled ==
    pc = "acquire_next_image" => ~imageAvailable[frame]

\* The oldest batch of the graphics queue executes in this step and signals
\* its slot's render-finished semaphore.
BatchSignals(k) ==
    /\ queue # <<>>
    /\ Head(queue).slot = k
    /\ queue' = Tail(queue)
    /\ renderFinished'[k]

\* C27: a slot's render-finished semaphore is never signalled by a new
\* submit while the signal of the slot's previous use has not been consumed
\* by the present request that waits on it.
C27_RenderFinishedConsumedFirst ==
    [][\A k \in Slots : BatchSignals(k) => ~renderFinished[k]]_vars

\* C28: whenever draw_frame is called or waits at its fence (initially,
\* after completed frames, after aborted frames, after resize, after a
\* failed submit), the current slot's fence is signalled or a submission
\* that will signal it is pending, so the wait does not block forever.
C28_FenceWillSignal ==
    pc \in {"idle", "wait_for_fences"} => fences[frame] \/ Pending_(frame)

(***************************************************************************)
(* Properties of start-up (SpecNew) and of adapter selection (SpecSelect). *)
(***************************************************************************)
\* C9: every failure during VkContext::new is returned to the caller as an
\* error value; VkContext::new never panics.
C9_NeverPanics == ini.outcome # "Panic"

\* Adapter a passes every test choose_physical_device makes of a candidate.
Eligible(a) ==
    /\ a.query_ok
    /\ a.geometry_shader
    /\ find_queue_families(a).graphics_family # None
    /\ is_device_suitable(a)

\* The enumerated adapters are two eligible ones, the i-th discrete and the
\* other not.
DiscreteAgainstOther(i) ==
    /\ Len(devices) = 2
    /\ Eligible(devices[1])
    /\ Eligible(devices[2])
    /\ devices[i].discrete
    /\ ~devices[3 - i].discrete

\* C10 as stated: of two eligible adapters, one discrete and one not, the
\* discrete one receives the strictly higher score and is the one selected,
\* whatever their maximum 2D image dimensions.
C10_DiscreteAlwaysWins ==
    \A i \in 1 .. 2 :
        (chosen # Pending /\ DiscreteAgainstOther(i)) =>
            /\ rate_device(devices[i]) > rate_device(devices[3 - i])
            /\ chosen = [result |-> "Ok", index |-> i]

\* C10, amended: the discrete one receives the strictly higher score and is
\* selected whenever its dimension plus the bonus of 1000 still fits an i32
\* and exceeds the other adapter's dimension.
C10_DiscreteWinsWithinBonus ==
    \A i \in 1 .. 2 :
        ( /\ chosen # Pending
          /\ DiscreteAgainstOther(i)
          /\ devices[i].dim <= I32_MAX - DISCRETE_BONUS
          /\ devices[i].dim + DISCRETE_BONUS > devices[3 - i].dim ) =>
            /\ rate_device(devices[i]) > rate_device(devices[3 - i])
            /\ chosen = [result |-> "Ok", index |-> i]

\* A discrete adapter enumerated first, with the smaller dimension, has been
\* selected over an adapter that is not discrete.
C10_Witness ==
    /\ DiscreteAgainstOther(1)
    /\ devices[1].dim < devices[2].dim
    /\ chosen = [result |-> "Ok", index |-> 1]

\* C11: choose_physical_device selects an eligible adapter whose score is
\* the maximum over the eligible adapters, and among several eligible
\* adapters with that score the one enumerated first.
C11_MaxScoreFirstOnTie ==
    chosen.result = "Ok" =>
        /\ Eligible(devices[chosen.index])
        /\ \A j \in 1 .. Len(devices) :
              Eligible(devices[j]) =>
                 /\ rate_device(devices[j]) <= rate_device(devices[chosen.index])
                 /\ rate_device(devices[j]) = rate_device(devices[chosen.index])
                       => chosen.index <= j

\* Adapter a has the geometry-shader feature, a graphics-capable queue
\* family, the swapchain extension, a surface format and a present mode.
Qualified(a) ==
    /\ a.geometry_shader
    /\ \E i \in 1 .. Len(a.families) : a.families[i][1]
    /\ a.swapchain_ext
    /\ a.formats > 0
    /\ a.present_modes > 0

\* C12: an adapter that lacks the geometry-shader feature, a graphics queue
\* family, the swapchain extension, or whose format list or present-mode
\* list is empty is never selected; when no enumerated adapter is eligible
\* the selection returns an error to the caller.
C12_IneligibleNeverSelected ==
    chosen # Pending =>
        /\ chosen.result = "Ok" => Qualified(devices[chosen.index])
        /\ (\A j \in 1 .. Len(devices) : ~Qualified(devices[j]))
              => chosen.result = "Err"

\* The lowest index (0-based) of a family of a whose component c is set;
\* None when no family has it.
LowestCapable(a, c) ==
    LET capable == {i \in 1 .. Len(a.families) : a.families[i][c]}
    IN  IF capable = {} THEN None
        ELSE (CHOOSE i \in capable : \A j \in capable : i <= j) - 1

\* C29: the adapter returned by choose_physical_device has a graphics and
\* a present queue family resolved (the unwraps in VkDevice::new and
\* VkContext::new cannot fail), and they are the lowest-index graphics-
\* capable and the lowest-index present-capable family.
C29_SelectedFamiliesResolved ==
    chosen.result = "Ok" =>
        LET a == devices[chosen.index]
            q == find_queue_families(a)
        IN  /\ q.graphics_family # None
            /\ q.present_family # None
            /\ q.graphics_family = LowestCapable(a, 1)
            /\ q.present_family = LowestCapable(a, 2)

\* C30: choose_physical_device returns Ok whenever at least one enumerated
\* adapter is eligible, whether or not the swapchain-support query of
\* another adapter fails.
C30_OkWhenOneEligible ==
    (chosen # Pending /\ \E j \in 1 .. Len(devices) : Eligible(devices[j]))
        => chosen.result = "Ok"

(***************************************************************************)
(* Properties of the helper functions (SpecHelpers).                       *)
(***************************************************************************)
\* The helper fn has been applied.
Returned(fn) == helper.fn = fn /\ helper.done

\* C13: whenever max_image_count is not 0 the chosen image count does not
\* exceed max_image_count (min 2, max 2 gives 2).
C13_ClampedToMaximum ==
    (Returned("image_count") /\ helper.arg.max_image_count # 0)
        => helper.result <= helper.arg.max_image_count

\* C14: the chosen image count is never below min_image_count + 1, and it
\* is min_image_count + 1 when max_image_count is 0.
C14_AtLeastMinPlusOne ==
    Returned("image_count") =>
        /\ helper.result >= helper.arg.min_image_count + 1
        /\ helper.arg.max_image_count = 0
              => helper.result = helper.arg.min_image_count + 1

\* min_image_count = 2 and max_image_count = 0 have given 3.
C14_Witness ==
    /\ Returned("image_count")
    /\ helper.arg.min_image_count = 2
    /\ helper.arg.max_image_count = 0
    /\ helper.result = 3

\* The indices find_memory_type may return for the helper's input.
QualifyingTypes ==
    {i \in 0 .. (Len(helper.arg.types) - 1) :
        /\ Bit(helper.arg.type_filter, i)
        /\ helper.arg.properties \subseteq helper.arg.types[i + 1]}

\* C15: find_memory_type returns the smallest index below memory_type_count
\* whose bit is set in the filter and whose flags contain every required
\* flag, and an error exactly when no index qualifies.
C15_FirstQualifyingType ==
    Returned("find_memory_type") =>
        IF QualifyingTypes = {}
        THEN ~helper.result.ok
        ELSE /\ helper.result.ok
             /\ helper.result.index \in QualifyingTypes
             /\ \A i \in QualifyingTypes : helper.result.index <= i

\* Filter 0b0110, three memory types of which only index 2 has the flags:
\* index 2 has been returned, although index 0 has the flags too.
C15_Witness ==
    /\ Returned("find_memory_type")
    /\ helper.arg.type_filter = 6
    /\ Len(helper.arg.types) = 3
    /\ QualifyingTypes = {2}
    /\ helper.arg.properties \subseteq helper.arg.types[1]
    /\ helper.result = [ok |-> TRUE, index |-> 2]

\* The entry choose_surface_format prefers.
PreferredFormat ==
    [format |-> "B8G8R8A8_SRGB", color_space |-> "SRGB_NONLINEAR"]

\* C16: choose_surface_format, given a non-empty list, returns the entry
\* B8G8R8A8_SRGB / SRGB_NONLINEAR whenever the list contains one, at any
\* position, and otherwise the first entry of the list.
C16_PreferredElseFirst ==
    Returned("choose_surface_format") =>
        IF \E i \in 1 .. Len(helper.arg) : helper.arg[i] = PreferredFormat
        THEN helper.result = PreferredFormat
        ELSE helper.result = helper.arg[1]

\* The preferred entry has been returned from the last position of a list
\* whose first entry has the preferred format in another colour space.
C16_Witness ==
    /\ Returned("choose_surface_format")
    /\ Len(helper.arg) > 1
    /\ helper.arg[1].format = "B8G8R8A8_SRGB"
    /\ helper.arg[1] # PreferredFormat
    /\ helper.arg[Len(helper.arg)] = PreferredFormat
    /\ helper.result = PreferredFormat

C20_TargetHoldsSource ==
    (Returned("VkBuffer_new") /\ helper.result.outcome = "Ok") =>
        /\ Len(helper.result.target) = SIZE_OF_F32 * Len(helper.arg)
        /\ \A k \in 1 .. Len(helper.arg) : \A b \in 1 .. SIZE_OF_F32 :
              helper.result.target[(k - 1) * SIZE_OF_F32 + b]
                 = helper.arg[k][b]

\* Two different elements have been uploaded: the target holds 8 bytes.
C20_Witness ==
    /\ Returned("VkBuffer_new")
    /\ helper.result.outcome = "Ok"
    /\ Len(helper.arg) = 2
    /\ helper.arg[1] # helper.arg[2]
    /\ Len(helper.result.target) = 8

\* C25: record_command_buffer records exactly this sequence, in this
\* order: begin command buffer, begin render pass on the framebuffer at the
\* acquired image index, bind pipeline, bind vertex buffer at offset 0, bind
\* index buffer at offset 0 with 32-bit indices, viewport and scissor of
\* the swapchain extent, the current slot's descriptor set, one indexed
\* draw of as many indices as were uploaded, end render pass, end command
\* buffer.
C25_RecordedSequence ==
    (Returned("record_command_buffer") /\ helper.arg.r = "ok") =>
        helper.result =
            << [cmd |-> "begin_command_buffer", args |-> <<>>],
               [cmd |-> "cmd_begin_render_pass",
                args |-> <<helper.arg.image_index, helper.arg.extent>>],
               [cmd |-> "cmd_bind_pipeline", args |-> <<>>],
               [cmd |-> "cmd_bind_vertex_buffers", args |-> <<0>>],
               [cmd |-> "cmd_bind_index_buffer", args |-> <<0, 32>>],
               [cmd |-> "cmd_set_viewport", args |-> <<helper.arg.extent>>],
               [cmd |-> "cmd_set_scissor", args |-> <<helper.arg.extent>>],
               [cmd |-> "cmd_bind_descriptor_sets",
                args |-> <<helper.arg.frame>>],
               [cmd |-> "cmd_draw_indexed",
                args |-> <<Len(helper.arg.indices), 1, 0, 0, 0>>],
               [cmd |-> "cmd_end_render_pass", args |-> <<>>],
               [cmd |-> "end_command_buffer", args |-> <<>>] >>

\* A recording for slot 1 on image 2 of a mesh of two indices.
C25_Witness ==
    /\ Returned("record_command_buffer")
    /\ helper.arg.r = "ok"
    /\ helper.arg.frame = 1
    /\ helper.arg.image_index = 2
    /\ Len(helper.arg.indices) = 2
    /\ Len(helper.result) = 11

(***************************************************************************)
(* Properties of shutdown (SpecDrop).                                      *)
(***************************************************************************)
\* The drop of VkContext and of its fields is over.
Dropped == teardown.step > Len(DropCalls)

\* C21: at shutdown the device-idle wait comes before anything is
\* destroyed, the device is destroyed only after every object created from
\* it (sync objects, buffers, descriptor pool, command pool and buffers,
\* swapchain objects, pipeline objects) has been released, and no child
\* object is destroyed or used after the device is destroyed.
C21_DeviceDestroyedLast ==
    /\ teardown.early = {}
    /\ ~teardown.device => /\ teardown.objects = {}
                           /\ live = NoLive
    /\ teardown.late = {}

\* The objects of the frame slots.
SlotObjects ==
    UNION {{<<"uniform_buffer", k>>, <<"uniform_memory", k>>,
            <<"image_available", k>>, <<"render_finished", k>>,
            <<"fence", k>>, <<"command_buffer", k>>} : k \in Slots}

\* C22: when the context is shut down, the swapchain state and every frame
\* slot's semaphores, fence, command buffer and uniform buffer are destroyed
\* after the device-idle wait; after shutdown none of the GPU objects
\* created by start-up or by a recreation is still allocated.
C22_NothingLeftAfterShutdown ==
    /\ teardown.early = {}
    /\ Dropped => /\ live = NoLive
                  /\ teardown.objects \cap SlotObjects = {}
                  /\ teardown.objects = {}

(***************************************************************************)
(* Properties of the staging upload (SpecUpload).                          *)
(***************************************************************************)
\* C24: VkBuffer::new blocks until the staging-to-target copy has completed
\* on the graphics queue before it destroys the staging buffer and before
\* it returns: the staging buffer is never destroyed while the copy is
\* pending, and a buffer that was returned (the only kind draw_frame can
\* draw from) has had its copy executed.
C24_CopyDoneBeforeCleanup ==
    /\ upload.staging = "destroyed" => ~upload.pending /\ upload.copied
    /\ upload.outcome = "Ok" => ~upload.pending /\ upload.copied

\* VkBuffer::new returned a buffer of two elements: the copy was executed
\* and the staging buffer is gone.
C24_Witness ==
    /\ upload.outcome = "Ok"
    /\ Len(upload.data) = 2
    /\ upload.staging = "destroyed"
    /\ upload.copied
    /\ upload.target_memory = to_bytes(upload.data)

=============================================================================
